---- MODULE Spec2Model ----
(***************************************************************************)
(* A model of dashboard.py, the Malaysian weather dashboard: a Streamlit   *)
(* script that is re-executed top to bottom on every user interaction.     *)
(*                                                                         *)
(*   - the city registry built from postcode-list.csv (lines 14-77),       *)
(*   - the three fetch functions behind st.cache_data (lines 91-135),      *)
(*   - the two views, rendered by script runs of concurrent sessions,      *)
(*   - the pure steps of the detail view: the weather-code lookup, the     *)
(*     hourly slice and the monthly rainfall aggregation.                  *)
(*                                                                         *)
(* Text is modelled as tuples of one-character strings, numbers read from  *)
(* text as [num, exp] (num * 10^-exp), dates as [y, m, d]. Each part has   *)
(* its own specification: SpecRegistry, SpecCodes, SpecHourly, SpecMonthly *)
(* apply one step to bounded inputs, Spec is the dashboard serving runs.   *)
(***************************************************************************)
EXTENDS Integers, Sequences, FiniteSets, TLC

VARIABLES
    pc,            \* which step of the script the model is at
    csv,           \* postcode-list.csv: whether it exists, and its rows
    CITIES,        \* the module-level registry (line 77), or Unbound
    clock,         \* wall-clock time in seconds
    cache,         \* st.cache_data's store: key -> entry
    netlog,        \* per cache key, the last requests.get that was answered
    view,          \* what the last script run that ended put on the page
    sessions,      \* per browser session, the script run in progress
    hourly,        \* hourly_df['time'] of the detail view
    now,           \* pd.Timestamp.now
    chart_df,      \* the slice charted as "Next 24h"
    historical,    \* historical_data_df: rows [time, precipitation_sum]
    monthly_data,  \* the rows behind the rainfall bar chart
    code,          \* a weather_code of the forecast payload
    shown,         \* what the view shows for that code
    runs           \* how many script runs were started

vars == <<pc, csv, CITIES, clock, cache, netlog, view, sessions, hourly, now, chart_df,
          historical, monthly_data, code, shown, runs>>

(***************************************************************************)
(* Values shared by the whole model.                                       *)
(***************************************************************************)
\* pandas' missing value: in a column of names, of texts, of numbers.
NaN == "<NaN>"
NaNText == <<"<NaN>">>
NaNNumber == [nan |-> TRUE, num |-> 0, exp |-> 0]
\* A variable a specification does not use.
Idle == "<idle>"

Min(a, b) == IF a < b THEN a ELSE b

RECURSIVE SeqSum(_)
SeqSum(s) == IF s = <<>> THEN 0 ELSE Head(s) + SeqSum(Tail(s))

(***************************************************************************)
(* 1. The city registry (lines 14-77).                                     *)
(***************************************************************************)
Digits == {"0", "1", "2", "3", "4", "5", "6", "7", "8", "9"}

DigitVal(c) ==
    CASE c = "0" -> 0 [] c = "1" -> 1 [] c = "2" -> 2 [] c = "3" -> 3
      [] c = "4" -> 4 [] c = "5" -> 5 [] c = "6" -> 6 [] c = "7" -> 7
      [] c = "8" -> 8 [] c = "9" -> 9

\* The character class [\d.-] of coord_pattern.
CoordChar(c) == c \in Digits \cup {".", "-"}

\* The literal prefix POINT\( of coord_pattern.
PointPrefix == <<"P", "O", "I", "N", "T", "(">>

\* Whether the text s holds the literal lit at position p.
HasAt(s, p, lit) ==
    /\ p + Len(lit) - 1 <= Len(s)
    /\ \A i \in 1..Len(lit) : s[p + i - 1] = lit[i]

\* The end of the longest run of [\d.-] characters of s that starts at p
\* (p - 1 when there is none): the greedy [\d.-]+ .
RECURSIVE RunEnd(_, _)
RunEnd(s, p) ==
    IF p <= Len(s) /\ CoordChar(s[p]) THEN RunEnd(s, p + 1) ELSE p - 1

NoMatch == <<NaNText, NaNText>>

\* coord_pattern matched at position p of s: the two groups, or NoMatch. Neither
\* class holds " " or ")", so backtracking never finds a match the longest
\* runs do not.
MatchAt(s, p) ==
    IF ~HasAt(s, p, PointPrefix) THEN NoMatch
    ELSE LET a1 == p + 6
             e1 == RunEnd(s, a1)
             a2 == e1 + 2
             e2 == RunEnd(s, a2)
         IN  IF /\ e1 >= a1
                /\ e1 + 1 <= Len(s) /\ s[e1 + 1] = " "
                /\ e2 >= a2
                /\ e2 + 1 <= Len(s) /\ s[e2 + 1] = ")"
             THEN <<SubSeq(s, a1, e1), SubSeq(s, a2, e2)>>
             ELSE NoMatch

\* re.search: the match at the leftmost position that has one.
RECURSIVE SearchFrom(_, _)
SearchFrom(s, p) ==
    IF p > Len(s) THEN NoMatch
    ELSE IF MatchAt(s, p) # NoMatch THEN MatchAt(s, p)
    ELSE SearchFrom(s, p + 1)

\* Series.str.extract(coord_pattern) on one cell: <<group 1, group 2>>, with
\* NaN for both on a missing cell or a cell without a match.
StrExtract(cell) == IF cell = NaNText THEN NoMatch ELSE SearchFrom(cell, 1)

\* The digits of t read as a natural number, most significant first.
RECURSIVE DigitsValue(_, _)
DigitsValue(t, acc) ==
    IF t = <<>> THEN acc ELSE DigitsValue(Tail(t), acc * 10 + DigitVal(Head(t)))

\* Whether t, a text over [\d.-], is a number: an optional leading "-", then
\* digits with at most one ".", at least one digit.
IsNumberText(t) ==
    LET body == IF t # <<>> /\ Head(t) = "-" THEN Tail(t) ELSE t
        dots == {i \in 1..Len(body) : body[i] = "."}
    IN  /\ \A i \in 1..Len(body) : body[i] \in Digits \cup {"."}
        /\ Cardinality(dots) <= 1
        /\ \E i \in 1..Len(body) : body[i] \in Digits

\* num * 10^-exp without trailing zero decimals: equal numbers, equal values.
RECURSIVE Normal(_, _)
Normal(num, exp) ==
    IF exp > 0 /\ num % 10 = 0 THEN Normal(num \div 10, exp - 1)
    ELSE [nan |-> FALSE, num |-> num, exp |-> exp]

\* The number a number text denotes.
NumberOf(t) ==
    LET neg    == Head(t) = "-"
        body   == IF neg THEN Tail(t) ELSE t
        digits == SelectSeq(body, LAMBDA c : c \in Digits)
        dot    == IF \E i \in 1..Len(body) : body[i] = "."
                  THEN CHOOSE i \in 1..Len(body) : body[i] = "." ELSE Len(body) + 1
        mag    == DigitsValue(digits, 0)
    IN  Normal(IF neg THEN 0 - mag ELSE mag, Len(body) + 1 - dot
                                              - (IF dot <= Len(body) THEN 1 ELSE 0))

\* pd.to_numeric on one extracted value: NaN stays NaN, a number text becomes
\* its number, any other text raises ValueError.
ToNumericRaises(t) == t # NaNText /\ ~IsNumberText(t)
ToNumeric(t) == IF t = NaNText THEN NaNNumber ELSE NumberOf(t)

\* One row of df after lines 31-38: the first group of coord_pattern is the
\* latitude (line 34), the second the longitude (line 35).
CoordRow(row) ==
    LET extracted_coords == StrExtract(row.point_coord)
    IN  [city      |-> row.city,
         latitude  |-> ToNumeric(extracted_coords[1]),
         longitude |-> ToNumeric(extracted_coords[2])]

\* DataFrame.dropna(): a row with any missing value goes.
DropNa(rows) ==
    SelectSeq(rows, LAMBDA r : r.city # NaN /\ ~r.latitude.nan /\ ~r.longitude.nan)

\* DataFrame.drop_duplicates(subset=['city']): scanning down, a row whose city
\* was already seen goes (keep='first', the default).
DropDuplicates(rows) ==
    LET F[i \in 0..Len(rows)] ==
            IF i = 0 THEN <<>>
            ELSE IF \E j \in 1..Len(F[i - 1]) : F[i - 1][j].city = rows[i].city
                 THEN F[i - 1]
                 ELSE Append(F[i - 1], rows[i])
    IN  F[Len(rows)]

\* A file of the disk: absent, or its rows.
MissingFile == [exists |-> FALSE, rows |-> <<>>]
CsvFile(rows) == [exists |-> TRUE, rows |-> rows]

\* What extract_coordinates_from_csv returns: a frame, or None.
NoFrame == [none |-> TRUE, rows |-> <<>>]
Frame(rows) == [none |-> FALSE, rows |-> rows]

\* extract_coordinates_from_csv: the cleaned frame, or None when read_csv, the
\* .str accessor or to_numeric raised (both except clauses return None).
\* A point_coord column with no text in it at all is read as float64, on
\* which .str raises AttributeError.
extract_coordinates_from_csv(file) ==
    LET rows == file.rows IN
    IF ~file.exists THEN NoFrame
    ELSE IF rows # <<>> /\ \A i \in 1..Len(rows) : rows[i].point_coord = NaNText
         THEN NoFrame
    ELSE IF \E i \in 1..Len(rows) :
                \/ ToNumericRaises(StrExtract(rows[i].point_coord)[1])
                \/ ToNumericRaises(StrExtract(rows[i].point_coord)[2])
         THEN NoFrame
    ELSE Frame(DropDuplicates(DropNa([i \in 1..Len(rows) |-> CoordRow(rows[i])])))

\* dataframe_to_cities_dict: {"City": {"lat": ..., "lon": ...}}, an insertion-
\* ordered dict, kept as the sequence of its items.
dataframe_to_cities_dict(df) ==
    [i \in 1..Len(df.rows) |-> [city |-> df.rows[i].city,
                                lat  |-> df.rows[i].latitude,
                                lon  |-> df.rows[i].longitude]]

\* The module-level name CITIES: never bound, or bound to the dict.
Unbound == [bound |-> FALSE, items |-> <<>>]
Bound(items) == [bound |-> TRUE, items |-> items]

\* Lines 72-77: CITIES is bound only when the frame could be built.
LoadCities(file) ==
    LET coordinates_df == extract_coordinates_from_csv(file)
    IN  IF ~coordinates_df.none THEN Bound(dataframe_to_cities_dict(coordinates_df))
        ELSE Unbound

(***************************************************************************)
(* Inputs of the registry: small CSV files.                                *)
(***************************************************************************)
MaxRows == 3

CsvCities == {"Ipoh", "Klang", NaN}

\* POINT(4.5 101)
CellA == PointPrefix \o <<"4", ".", "5", " ", "1", "0", "1", ")">>
\* POINT(3 102.50)
CellB == PointPrefix \o <<"3", " ", "1", "0", "2", ".", "5", "0", ")">>
\* xPOINT(-2. .5)y : a match inside a longer text
CellC == <<"x">> \o PointPrefix \o <<"-", "2", ".", " ", ".", "5", ")", "y">>
\* POINT(4,101) : no match
CellD == PointPrefix \o <<"4", ",", "1", "0", "1", ")">>
\* POINT(1-2 3) : a match whose first group is no number
CellE == PointPrefix \o <<"1", "-", "2", " ", "3", ")">>
\* POINT(7 ) : no match, the second group is empty
CellF == PointPrefix \o <<"7", " ", ")">>

CsvCells == {CellA, CellB, CellC, CellD, CellE, CellF, NaNText}

CsvRows == [city : CsvCities, point_coord : CsvCells]

RECURSIVE SeqsUpTo(_, _)
SeqsUpTo(S, n) ==
    IF n = 0 THEN {<<>>}
    ELSE LET shorter == SeqsUpTo(S, n - 1)
         IN  shorter \cup {Append(s, x) : s \in {t \in shorter : Len(t) = n - 1}, x \in S}

CsvFiles == {MissingFile} \cup {CsvFile(rows) : rows \in SeqsUpTo(CsvRows, MaxRows)}

IdleRegistry ==
    /\ clock = 0 /\ cache = Idle /\ netlog = Idle /\ view = Idle
    /\ sessions = Idle /\ runs = 0

IdleHourly == hourly = Idle /\ now = Idle /\ chart_df = Idle
IdleMonthly == historical = Idle /\ monthly_data = Idle
IdleCodes == code = Idle /\ shown = Idle

InitRegistry ==
    /\ pc = "start"
    /\ csv \in CsvFiles
    /\ CITIES = Unbound
    /\ IdleRegistry /\ IdleHourly /\ IdleMonthly /\ IdleCodes

\* The script's lines 72-77.
BuildRegistry ==
    /\ pc = "start"
    /\ pc' = "registry"
    /\ CITIES' = LoadCities(csv)
    /\ UNCHANGED <<csv, clock, cache, netlog, view, sessions, hourly, now, chart_df,
                   historical, monthly_data, code, shown, runs>>

NextRegistry == BuildRegistry

SpecRegistry == InitRegistry /\ [][NextRegistry]_vars

(***************************************************************************)
(* 2. The weather-code lookup (lines 80-87, 216, 249-250).                 *)
(*    Icons are written by name: sun is U+2600, and so on.                 *)
(***************************************************************************)
MappedCodes == {0, 1, 2, 3, 45, 48, 51, 53, 55, 61, 63, 65, 80, 81, 82, 95}

\* WEATHER_CODES[c], a (description, icon) pair, for c in MappedCodes.
WEATHER_CODES(c) ==
    CASE c = 0  -> <<"Clear", "sun">>
      [] c = 1  -> <<"Mainly clear", "sun_small_cloud">>
      [] c = 2  -> <<"Partly cloudy", "sun_behind_cloud">>
      [] c = 3  -> <<"Overcast", "cloud">>
      [] c = 45 -> <<"Fog", "fog">>
      [] c = 48 -> <<"Rime fog", "fog">>
      [] c = 51 -> <<"Light drizzle", "droplet">>
      [] c = 53 -> <<"Mod. drizzle", "droplet">>
      [] c = 55 -> <<"Dense drizzle", "droplet">>
      [] c = 61 -> <<"Slight rain", "rain_cloud">>
      [] c = 63 -> <<"Mod. rain", "rain_cloud">>
      [] c = 65 -> <<"Heavy rain", "rain_cloud">>
      [] c = 80 -> <<"Rain showers", "sun_rain_cloud">>
      [] c = 81 -> <<"Rain showers", "sun_rain_cloud">>
      [] c = 82 -> <<"Violent showers", "sun_rain_cloud">>
      [] c = 95 -> <<"Thunderstorm", "thunder_cloud">>

\* dict.get(c, default) on WEATHER_CODES.
WeatherCodesGet(c, default) == IF c \in MappedCodes THEN WEATHER_CODES(c) ELSE default

\* Line 216: weather_desc, weather_icon of the "Condition" metric.
CurrentCondition(c) == WeatherCodesGet(c, <<"Unknown", "">>)

\* Lines 249-250: the 'weather' cell of a 7-day row, f"{icon} {description}",
\* kept as its three parts.
DailyWeather(c) ==
    <<WeatherCodesGet(c, <<"", "">>)[2], " ", WeatherCodesGet(c, <<"", "">>)[1]>>

MinCode == 0 - 2
MaxCode == 100
CodeInputs == MinCode..MaxCode

NothingShown == [metric |-> <<"", "">>, weather |-> <<"", "", "">>]

IdleMain == csv = Idle /\ CITIES = Idle /\ IdleRegistry

InitCodes ==
    /\ pc = "start"
    /\ code \in CodeInputs
    /\ shown = NothingShown
    /\ IdleMain /\ IdleHourly /\ IdleMonthly

\* Line 216-219: the code as the current condition.
RenderCondition ==
    /\ pc = "start"
    /\ pc' = "condition"
    /\ shown' = [shown EXCEPT !.metric = CurrentCondition(code)]
    /\ UNCHANGED <<csv, CITIES, clock, cache, netlog, view, sessions, hourly, now, chart_df,
                   historical, monthly_data, code, runs>>

\* Lines 249-250: the code as a day of the 7-day table.
RenderDailyRow ==
    /\ pc = "condition"
    /\ pc' = "daily"
    /\ shown' = [shown EXCEPT !.weather = DailyWeather(code)]
    /\ UNCHANGED <<csv, CITIES, clock, cache, netlog, view, sessions, hourly, now, chart_df,
                   historical, monthly_data, code, runs>>

NextCodes == RenderCondition \/ RenderDailyRow

SpecCodes == InitCodes /\ [][NextCodes]_vars

(***************************************************************************)
(* 3. The hourly slice of the detail view (lines 223-232). Times are in    *)
(*    half hours.                                                          *)
(***************************************************************************)
\* numpy's binary search for side='right'.
RECURSIVE BisectRight(_, _, _, _)
BisectRight(a, v, lo, hi) ==
    IF lo >= hi THEN lo
    ELSE LET mid == lo + ((hi - lo) \div 2)
         IN  IF a[mid + 1] <= v THEN BisectRight(a, v, mid + 1, hi)
             ELSE BisectRight(a, v, lo, mid)

\* numpy's binary search for side='left', on 0-based positions lo..hi.
RECURSIVE BisectLeft(_, _, _, _)
BisectLeft(a, v, lo, hi) ==
    IF lo >= hi THEN lo
    ELSE LET mid == lo + ((hi - lo) \div 2)
         IN  IF a[mid + 1] < v THEN BisectLeft(a, v, mid + 1, hi)
             ELSE BisectLeft(a, v, lo, mid)

\* SearchSorted gone wrong: side='right'.
SearchSortedRight(a, v) == BisectRight(a, v, 0, Len(a))

\* Series.searchsorted(v), line 231: a 0-based position.
SearchSorted(a, v) == BisectLeft(a, v, 0, Len(a))

\* The number of rows charted (line 232).
ChartHours == 24

\* DataFrame.iloc[start:stop], 0-based and clipped to the frame.
Iloc(a, start, stop) == SubSeq(a, start + 1, Min(stop, Len(a)))

\* Lines 231-232: chart_df.
HourlySlice(times, t) ==
    LET start_index == SearchSorted(times, t)
    IN  Iloc(times, start_index, start_index + ChartHours)

MaxHours == 26

\* An ascending hourly series of n stamps, one hour apart, except that the
\* stamp after position gap (if gap > 0) comes jump half hours late: an hour
\* is missing (jump = 2) or, the stamps before it being an hour late, it
\* repeats the stamp before it (jump = -2).
HourlySeries(n, gap, jump) ==
    [i \in 1..n |-> 2 * i + (IF gap > 0 /\ i > gap THEN jump ELSE 0)]

InitHourly ==
    /\ pc = "start"
    /\ \E n \in 0..MaxHours : \E gap \in 0..n : \E jump \in {0 - 2, 2} :
          /\ hourly = HourlySeries(n, gap, jump)
          /\ now \in 0..(2 * n + 4)
    /\ chart_df = <<>>
    /\ IdleMain /\ IdleMonthly /\ IdleCodes

SliceHourly ==
    /\ pc = "start"
    /\ pc' = "sliced"
    /\ chart_df' = HourlySlice(hourly, now)
    /\ UNCHANGED <<csv, CITIES, clock, cache, netlog, view, sessions, hourly, now,
                   historical, monthly_data, code, shown, runs>>

NextHourly == SliceHourly

SpecHourly == InitHourly /\ [][NextHourly]_vars

(***************************************************************************)
(* 4. The monthly rainfall aggregation (lines 257-261). A date is the text *)
(*    the API sends, YYYY-MM-DD; rainfall is in tenths of a millimetre.    *)
(***************************************************************************)
DigitChar(d) ==
    CASE d = 0 -> "0" [] d = 1 -> "1" [] d = 2 -> "2" [] d = 3 -> "3"
      [] d = 4 -> "4" [] d = 5 -> "5" [] d = 6 -> "6" [] d = 7 -> "7"
      [] d = 8 -> "8" [] d = 9 -> "9"

\* n written with exactly w digits, zero-padded (%Y, %m, %d for these dates).
RECURSIVE Padded(_, _)
Padded(n, w) ==
    IF w = 0 THEN <<>> ELSE Append(Padded(n \div 10, w - 1), DigitChar(n % 10))

\* The text of a date, as the API writes it.
DateText(y, m, d) == Padded(y, 4) \o <<"-">> \o Padded(m, 2) \o <<"-">> \o Padded(d, 2)

\* pd.to_datetime on a YYYY-MM-DD text (line 258).
ToDatetime(text) ==
    [y |-> DigitsValue(SubSeq(text, 1, 4), 0),
     m |-> DigitsValue(SubSeq(text, 6, 7), 0),
     d |-> DigitsValue(SubSeq(text, 9, 10), 0)]

\* Series.dt.to_period('M'): months since year 0, as pandas orders periods.
ToPeriodM(ts) == ts.y * 12 + (ts.m - 1)

\* Series.dt.strftime('%Y-%m') on a monthly period (line 261).
StrftimeYm(p) == Padded(p \div 12, 4) \o <<"-">> \o Padded((p % 12) + 1, 2)

\* The elements of the finite set S of integers, ascending.
RECURSIVE Sorted(_)
Sorted(S) ==
    IF S = {} THEN <<>>
    ELSE LET least == CHOOSE x \in S : \A y \in S : x <= y
         IN  <<least>> \o Sorted(S \ {least})

\* GroupKey gone wrong: grouping by dt.month, the month of any year.
GroupKeyMonthOfYear(row) == ToDatetime(row.time).m - 1

\* The key historical_data_df is grouped by (line 259).
GroupKey(row) == ToPeriodM(ToDatetime(row.time))

\* agg({'precipitation_sum': 'sum'}) over the rows of one group, in row order.
RECURSIVE GroupSum(_, _)
GroupSum(rows, key) ==
    IF rows = <<>> THEN 0
    ELSE (IF GroupKey(Head(rows)) = key THEN Head(rows).precipitation_sum ELSE 0)
         + GroupSum(Tail(rows), key)

\* Lines 258-261: monthly_data, one row per group, groups in ascending order
\* (groupby sorts its keys), the period written as '%Y-%m'.
MonthlyData(rows) ==
    LET keys == Sorted({GroupKey(rows[i]) : i \in 1..Len(rows)})
    IN  [k \in 1..Len(keys) |->
            [time              |-> StrftimeYm(keys[k]),
             precipitation_sum |-> GroupSum(rows, keys[k])]]

\* Days of month m of a year that is not a leap year.
DaysIn(m) == IF m = 2 THEN 28 ELSE IF m \in {4, 6, 9, 11} THEN 30 ELSE 31

\* The date k days after the date y-m-d.
RECURSIVE AddDays(_, _, _, _)
AddDays(y, m, d, k) ==
    IF d + k <= DaysIn(m) THEN [y |-> y, m |-> m, d |-> d + k]
    ELSE IF m < 12 THEN AddDays(y, m + 1, 1, k - (DaysIn(m) - d + 1))
    ELSE AddDays(y + 1, 1, 1, k - (DaysIn(m) - d + 1))

MaxDays == 6

RainValues == {0, 2, 15}

StartDates == {[y |-> 2025, m |-> 4, d |-> 22], [y |-> 2025, m |-> 4, d |-> 29],
               [y |-> 2025, m |-> 12, d |-> 30]}

\* The days between two rows of a series: daily, or a sparse series that
\* spans several months.
DaySteps == {1, 20}

RECURSIVE RainSeqs(_)
RainSeqs(n) ==
    IF n = 0 THEN {<<>>}
    ELSE {Append(s, v) : s \in RainSeqs(n - 1), v \in RainValues}

\* The frame of the daily series that starts at start, a row every step days.
DailyFrame(start, step, rain) ==
    [i \in 1..Len(rain) |->
        LET dt == AddDays(start.y, start.m, start.d, step * (i - 1))
        IN  [time |-> DateText(dt.y, dt.m, dt.d), precipitation_sum |-> rain[i]]]

\* The series of the end-to-end scenario: 2025-04-22 .. 2025-04-30.
FixtureRain == <<0, 12, 5, 0, 0, 31, 2, 0, 7>>
Fixture == DailyFrame([y |-> 2025, m |-> 4, d |-> 22], 1, FixtureRain)

InitMonthly ==
    /\ pc = "start"
    /\ \/ historical = Fixture
       \/ \E n \in 1..MaxDays : \E rain \in RainSeqs(n) :
          \E start \in StartDates : \E step \in DaySteps :
             historical = DailyFrame(start, step, rain)
    /\ monthly_data = <<>>
    /\ IdleMain /\ IdleHourly /\ IdleCodes

\* Lines 258-261.
AggregateMonthly ==
    /\ pc = "start"
    /\ pc' = "aggregated"
    /\ monthly_data' = MonthlyData(historical)
    /\ UNCHANGED <<csv, CITIES, clock, cache, netlog, view, sessions, hourly, now, chart_df,
                   historical, code, shown, runs>>

NextMonthly == AggregateMonthly

SpecMonthly == InitMonthly /\ [][NextMonthly]_vars

(***************************************************************************)
(* 5. The fetch functions behind st.cache_data (lines 91-135).             *)
(***************************************************************************)
\* What a fetch function hands back: None, a parsed JSON payload or a frame;
\* "raised" stands for the exception requests.get let through.
Val(kind, body) == [kind |-> kind, body |-> body]
PyNone == Val("None", <<>>)
Raised == Val("raised", <<>>)

\* Python's truth value of a returned value (lines 151, 213).
Truthy(v) == v.kind = "object" \/ (v.kind = "list" /\ v.body # <<>>)

\* The ttl of each decorator (lines 91, 106, 122), in seconds.
Ttl(op) == IF op = "get_historical_data" THEN 3600 ELSE 600

\* st.cache_data keys an entry by the function and its arguments;
\* get_all_cities_data takes none.
Key(op, lat, lon) == [op |-> op, lat |-> lat, lon |-> lon]
NoArgsKey(op) == Key(op, NaNNumber, NaNNumber)

\* An entry of cache c is served at time t while it is younger than its
\* ttl.
Hit(c, k, t) == k \in DOMAIN c /\ t < c[k].expires

\* The last GET for key k that came back, if any: when it was issued, when
\* it came back, and the kind of value the body returned ("raised" when
\* requests.get raised).
NoGet == [any |-> FALSE, issued |-> 0, time |-> 0, kind |-> ""]
LastGet(l, k) == IF k \in DOMAIN l THEN l[k] ELSE NoGet

\* The upstream API: the conditions it reports for a place.
Conditions(lat, lon) ==
    [latitude  |-> lat, longitude |-> lon,
     current   |-> [temperature_2m |-> 25 + (lat.num % 7),
                    precipitation  |-> lon.num % 2,
                    weather_code   |-> lat.num % 100]]

\* Its answer to the bulk request for the places lats[i], lons[i]: a list in
\* the order asked, but a bare object when a single place is asked for.
BulkJson(lats, lons, shape) ==
    IF shape = "object" THEN Val("object", <<Conditions(lats[1], lons[1])>>)
    ELSE Val("list", [i \in 1..Len(lats) |-> Conditions(lats[i], lons[i])])

BulkShapes(n) == IF n = 1 THEN {"object", "list"} ELSE {"list"}

\* Its answer to the forecast request of one place.
ForecastJson(lat, lon) ==
    Val("object", <<[latitude |-> lat, longitude |-> lon,
                     current  |-> Conditions(lat, lon).current,
                     hourly   |-> <<0, 3600, 7200, 10800>>,
                     daily    |-> <<lat.num % 100, 7>>]>>)

\* Its answers to the historical request, as the frame built from 'daily'.
HistoricalFrame(response) ==
    IF response = "200"
    THEN Val("frame", DailyFrame([y |-> 2025, m |-> 4, d |-> 30], 1, <<5, 2>>))
    ELSE Val("frame", <<>>)

\* What requests.get can do: answer 200, answer another status, or raise.
\* The historical answer may hold an empty 'daily', or none.
Responses(op, n) ==
    CASE op = "get_all_cities_data" ->
            IF n = 0 THEN {"non200", "failure"} ELSE {"200", "non200", "failure"}
      [] op = "get_forecast_data"   -> {"200", "non200", "failure"}
      [] op = "get_historical_data" ->
            {"200", "200_empty_daily", "200_no_daily", "non200", "failure"}

\* The body of get_all_cities_data (lines 93-103).
get_all_cities_data(cities, response, shape) ==
    LET lats == [i \in 1..Len(cities) |-> cities[i].lat]
        lons == [i \in 1..Len(cities) |-> cities[i].lon]
    IN  IF response = "failure" THEN Raised
        ELSE IF response = "200" THEN BulkJson(lats, lons, shape)
        ELSE PyNone

\* The body of get_forecast_data (lines 108-119).
get_forecast_data(lat, lon, response) ==
    IF response = "failure" THEN Raised
    ELSE IF response = "200" THEN ForecastJson(lat, lon)
    ELSE PyNone

\* The body of get_historical_data (lines 124-135).
get_historical_data(lat, lon, response) ==
    IF response = "failure" THEN Raised
    ELSE IF response \in {"200", "200_empty_daily"} THEN HistoricalFrame(response)
    ELSE PyNone

\* The cached calls of a script run, in the order the script makes them:
\* the bulk fetch on HOME (line 150), the forecast and then the historical
\* fetch of the selected city (lines 210-211).
HOME == "--- HOME ---"
CityNames(cities) == {cities[i].city : i \in 1..Len(cities)}
Lookup(cities, name) == cities[CHOOSE i \in 1..Len(cities) : cities[i].city = name]
Todo(cities, page) ==
    IF page = HOME THEN <<NoArgsKey("get_all_cities_data")>>
    ELSE LET city_lat == Lookup(cities, page).lat
             city_lon == Lookup(cities, page).lon
         IN  <<Key("get_forecast_data", city_lat, city_lon),
               Key("get_historical_data", city_lat, city_lon)>>

\* What the body of the function behind key k returns on a response.
Returned(cities, k, response, shape) ==
    CASE k.op = "get_all_cities_data" -> get_all_cities_data(cities, response, shape)
      [] k.op = "get_forecast_data"   -> get_forecast_data(k.lat, k.lon, response)
      [] k.op = "get_historical_data" -> get_historical_data(k.lat, k.lon, response)

\* The shapes a 200 answer can have: only the bulk answer has two.
Shapes(k, n) == IF k.op = "get_all_cities_data" THEN BulkShapes(n) ELSE {"object"}

\* The cache after the body behind key k came back at time t: a returned
\* value is stored with its expiry, counted from t; an exception stores
\* nothing.
Stored(c, k, val, t) ==
    IF val.kind # "raised"
    THEN (k :> [val |-> val, expires |-> t + Ttl(k.op)]) @@ c
    ELSE c

\* The GETs that came back, after the body behind key k, entered at time
\* t0, came back at time t.
Logged(l, k, val, t0, t) ==
    (k :> [any |-> TRUE, issued |-> t0, time |-> t, kind |-> val.kind]) @@ l

\* A session's script run: the page selected, the cached calls still to
\* make (the first is the one the run is at), the calls made, and when the
\* GET in flight was issued. Streamlit runs each session's script in a
\* thread of its own, over the one store of st.cache_data; a run is at a
\* cached call it is about to make ("run"), inside requests.get ("get"),
\* waiting for the lock of the key it missed ("locked"), past its last call
\* and about to render ("render"), or unwinding to the top of the script
\* with the exception of requests.get ("raised").
Sessions == {1, 2}
IdleSession == [pc |-> "idle", page |-> "", todo |-> <<>>, calls |-> <<>>, issued |-> 0]

\* The keys whose value is being computed: st.cache_data computes under a
\* lock per key, held from the miss until the body has returned or raised.
Held(ss) == {Head(ss[s].todo) : s \in {x \in Sessions : ss[x].pc = "get"}}

\* The next cached call of a script run, made at time t over cache c: a
\* call whose entry is fresh returns the stored value and the run is at its
\* next call, or past its last; on a miss the run waits for the key's lock if another session
\* computes the value, else it takes the lock and enters the body, which
\* blocks in requests.get.
CachedCall(run, c, l, held, t) ==
    LET k == Head(run.todo)
    IN  IF Hit(c, k, t)
        THEN [run EXCEPT !.pc = IF Len(run.todo) = 1 THEN "render" ELSE "run",
                         !.todo = Tail(@),
                         !.calls = Append(@, [key |-> k, src |-> "cache",
                                              response |-> "none", val |-> c[k].val,
                                              at |-> t, prev |-> LastGet(l, k)])]
        ELSE IF k \in held THEN [run EXCEPT !.pc = "locked"]
        ELSE [run EXCEPT !.pc = "get", !.issued = t]

(***************************************************************************)
(* 6. The script runs (lines 72-77 and 139-271) and the page each leaves.  *)
(***************************************************************************)
BlankPage ==
    [page |-> "", at |-> 0, outcome |-> "none", sections |-> {}, calls |-> <<>>,
     rows |-> <<>>, condition |-> <<"", "">>, chart |-> <<>>, weather |-> <<>>,
     monthly |-> <<>>]

\* Lines 153-160: summary_data, the i-th answer paired with the i-th city.
SummaryData(cities, all_cities_data) ==
    [i \in 1..Len(cities) |->
        LET city_api_data == all_cities_data.body[i]
        IN  [City |-> cities[i].city,
             lat  |-> city_api_data.latitude,
             lon  |-> city_api_data.longitude,
             Temp |-> city_api_data.current.temperature_2m,
             Rain |-> city_api_data.current.precipitation]]

\* Lines 139-203: the national overview rendered at time t, given the call
\* it made.
HomePage(cities, call, t) ==
    LET base == [BlankPage EXCEPT !.page = HOME, !.at = t, !.calls = <<call>>,
                                  !.sections = {"sidebar_title", "title",
                                                "overview_header"}]
        data == call.val
    IN  IF data.kind = "raised" THEN [base EXCEPT !.outcome = "ConnectionError"]
        ELSE IF ~Truthy(data)
             THEN [base EXCEPT !.outcome = "completed",
                               !.sections = @ \cup {"overview_warning"}]
        \* With no city the loop makes no row and summary_df has no column:
        \* summary_df['Rain (mm/hr)'] at line 168 is a KeyError.
        ELSE IF cities = <<>>
             THEN [base EXCEPT !.outcome = "KeyError"]
        \* all_cities_data[0] on a dict: KeyError; past the end of a list:
        \* IndexError.
        ELSE IF data.kind = "object"
             THEN [base EXCEPT !.outcome = "KeyError"]
        ELSE IF Len(data.body) < Len(cities)
             THEN [base EXCEPT !.outcome = "IndexError"]
        ELSE [base EXCEPT !.outcome = "completed",
                          !.rows = SummaryData(cities, data),
                          !.sections = @ \cup {"map", "analytics", "summary_table"}]

\* Lines 257-269: the rainfall column of the detail view.
RainfallSection(page, historical_data_df) ==
    IF historical_data_df.kind # "None" /\ historical_data_df.body # <<>>
    THEN [page EXCEPT !.monthly = MonthlyData(historical_data_df.body),
                      !.sections = @ \cup {"rain_chart"}]
    ELSE [page EXCEPT !.sections = @ \cup {"rain_placeholder"}]

\* Lines 139-144 and 205-271: the detail view of selected_city rendered at
\* time t, given the calls it made (a call that raised is the last).
CityPage(selected_city, calls, t) ==
    LET base == [BlankPage EXCEPT !.page = selected_city, !.at = t,
                                  !.calls = calls,
                                  !.sections = {"sidebar_title", "title",
                                                "detail_header"}]
        forecast_data == calls[1].val
    IN  IF \E i \in 1..Len(calls) : calls[i].val.kind = "raised"
        THEN [base EXCEPT !.outcome = "ConnectionError"]
        ELSE IF Truthy(forecast_data)
             THEN LET f == forecast_data.body[1]
                      shownPage ==
                        [base EXCEPT
                           !.outcome = "completed",
                           !.condition = CurrentCondition(f.current.weather_code),
                           !.chart = HourlySlice(f.hourly, t),
                           !.weather = [i \in 1..Len(f.daily) |-> DailyWeather(f.daily[i])],
                           !.sections = @ \cup {"metrics", "hourly_chart", "daily_table"}]
                  IN  RainfallSection(shownPage, calls[2].val)
             ELSE [base EXCEPT !.outcome = "completed",
                               !.sections = @ \cup {"detail_error"}]

\* The page a run leaves when it ends at time t.
Page(cities, run, t) ==
    IF run.page = HOME THEN HomePage(cities, run.calls[1], t)
    ELSE CityPage(run.page, run.calls, t)

\* The instants, in seconds, at which something happens: a GET issued at 0
\* comes back at 0 or at 300; 300 and 600 lie inside or at the end of the
\* 600 s window it opens and inside its 3600 s window, 3900 lies past the
\* first and at the end of a 3600 s window opened at 300.
Instants == {0, 300, 600, 3900}

\* The files the dashboard is started on. The file does not change while the
\* dashboard serves, so lines 72-77 bind CITIES to the same value in every
\* run of the script: the model computes it once, in Init.
RowIpoh == [city |-> "Ipoh", point_coord |-> CellA]
RowKlang == [city |-> "Klang", point_coord |-> CellB]
RowNoCoord == [city |-> "Muar", point_coord |-> CellD]
MainFiles == {MissingFile, CsvFile(<<RowNoCoord>>), CsvFile(<<RowIpoh, RowNoCoord>>),
              CsvFile(<<RowIpoh, RowKlang, RowIpoh>>)}

Init ==
    /\ pc = "serving"
    /\ csv \in MainFiles
    /\ CITIES = LoadCities(csv)
    /\ clock = 0
    /\ cache = <<>>
    /\ netlog = <<>>
    /\ view = BlankPage
    /\ sessions = [s \in Sessions |-> IdleSession]
    /\ runs = 0
    /\ IdleHourly /\ IdleMonthly /\ IdleCodes

MaxRuns == 2

\* Time passes while a session is idle and while requests.get waits for the
\* answer; the wall clock never runs backwards.
Later == clock' \in {t \in Instants : t >= clock}

\* A user interaction starts a run of the script in a session that runs
\* none (the sessions being alike, the first such).
Starts(s) ==
    /\ runs < MaxRuns
    /\ runs' = runs + 1
    /\ sessions[s].pc = "idle"
    /\ \A x \in Sessions : x < s => sessions[x].pc # "idle"
    /\ Later

\* A run on a file the registry cannot be built from: CITIES stays unbound
\* and line 140 raises NameError.
RunWithoutRegistry ==
    /\ ~CITIES.bound
    /\ Starts(1)
    /\ view' = [BlankPage EXCEPT !.at = clock', !.outcome = "NameError",
                                 !.sections = {"sidebar_title"}]
    /\ UNCHANGED <<pc, csv, CITIES, cache, netlog, sessions, hourly, now, chart_df,
                   historical, monthly_data, code, shown>>

\* A run starts with the selectbox on HOME or on a city, and makes its first
\* cached call (line 150 or line 210).
Begin ==
    /\ CITIES.bound
    /\ \E s \in Sessions :
          /\ Starts(s)
          /\ \E page \in {HOME} \cup CityNames(CITIES.items) :
                sessions' = [sessions EXCEPT ![s] =
                               CachedCall([IdleSession EXCEPT
                                             !.page = page,
                                             !.todo = Todo(CITIES.items, page)],
                                          cache, netlog, Held(sessions), clock')]
    /\ UNCHANGED <<pc, csv, CITIES, cache, netlog, view, hourly, now, chart_df,
                   historical, monthly_data, code, shown>>

\* requests.get comes back in the run of session s: the body returns, its
\* value is stored and the lock released, or it raises and the lock is
\* released. The cached call is over; what the run does next (its next
\* cached call, rendering, ending on the exception) is a step of its own.
Answer ==
    /\ \E s \in Sessions :
          /\ sessions[s].pc = "get"
          /\ Later
          /\ LET run == sessions[s]
                 k   == Head(run.todo)
                 n   == Len(CITIES.items)
             IN  \E response \in Responses(k.op, n) : \E shape \in Shapes(k, n) :
                    LET val  == Returned(CITIES.items, k, response, shape)
                        call == [key |-> k, src |-> "network", response |-> response,
                                 val |-> val, at |-> run.issued,
                                 prev |-> LastGet(netlog, k)]
                    IN  /\ cache' = Stored(cache, k, val, clock')
                        /\ netlog' = Logged(netlog, k, val, run.issued, clock')
                        /\ sessions' = [sessions EXCEPT ![s] =
                              [run EXCEPT
                                 !.pc = IF val.kind = "raised" THEN "raised"
                                        ELSE IF Len(run.todo) = 1 THEN "render"
                                        ELSE "run",
                                 !.todo = Tail(@),
                                 !.calls = Append(@, call)]]
    /\ UNCHANGED <<pc, csv, CITIES, view, runs, hourly, now, chart_df, historical,
                   monthly_data, code, shown>>

\* The run of session s, a cached call behind it, makes its next one
\* (line 211); other sessions may have run in between.
NextCall ==
    /\ \E s \in Sessions :
          /\ sessions[s].pc = "run"
          /\ sessions' = [sessions EXCEPT ![s] =
                CachedCall(sessions[s], cache, netlog, Held(sessions), clock)]
    /\ UNCHANGED <<pc, csv, CITIES, clock, cache, netlog, view, runs, hourly, now,
                   chart_df, historical, monthly_data, code, shown>>

\* The lock session s waits for is free: the run looks its key up again and
\* goes on, with the value the other session stored or into the body.
Unlocked ==
    /\ \E s \in Sessions :
          /\ sessions[s].pc = "locked"
          /\ Head(sessions[s].todo) \notin Held(sessions)
          /\ sessions' = [sessions EXCEPT ![s] =
                CachedCall(sessions[s], cache, netlog, Held(sessions), clock)]
    /\ UNCHANGED <<pc, csv, CITIES, clock, cache, netlog, view, runs, hourly, now,
                   chart_df, historical, monthly_data, code, shown>>

\* The run of session s, its cached calls behind it, renders the rest of
\* the page (lines 151-203, 213-271), or ends on the exception; it leaves
\* its page and the session waits for the next interaction.
Render ==
    /\ \E s \in Sessions :
          /\ sessions[s].pc \in {"render", "raised"}
          /\ view' = Page(CITIES.items, sessions[s], clock)
          /\ sessions' = [sessions EXCEPT ![s] = IdleSession]
    /\ UNCHANGED <<pc, csv, CITIES, clock, cache, netlog, runs, hourly, now,
                   chart_df, historical, monthly_data, code, shown>>

Next == RunWithoutRegistry \/ Begin \/ Answer \/ NextCall \/ Unlocked \/ Render

Spec == Init /\ [][Next]_vars

(***************************************************************************)
(* 7. The properties.                                                      *)
(***************************************************************************)
\* The window the contract states for each fetch operation, in seconds.
Window(op) == IF op = "get_historical_data" THEN 3600 ELSE 600

\* The sections that show the data of a fetch operation.
DataSections(op) ==
    CASE op = "get_all_cities_data" -> {"map", "analytics", "summary_table"}
      [] op = "get_forecast_data"   -> {"metrics", "hourly_chart", "daily_table"}
      [] op = "get_historical_data" -> {"rain_chart"}

\* The message the page shows when the data of a fetch operation is absent.
AbsentMessage(op) ==
    CASE op = "get_all_cities_data" -> "overview_warning"
      [] op = "get_forecast_data"   -> "detail_error"
      [] op = "get_historical_data" -> "rain_placeholder"

\* The cached calls that returned or raised: those of the last run that
\* ended, and those of every run, the runs in progress included.
CallsOf(run) == {run.calls[i] : i \in 1..Len(run.calls)}
CallsShown == CallsOf(view)
CallsMade == CallsShown \cup UNION {CallsOf(sessions[s]) : s \in Sessions}

\* C1: over any sequence of runs, at most one GET is issued per operation,
\* arguments and window (600 s for current and forecast, 3600 s for
\* historical): a call that issues a GET comes a whole window or more after
\* the last GET issued for the same operation and arguments, whatever came
\* of that GET, and a call is served from the cache only inside the window
\* of the GET that filled it, so only the passing of time ends a window.
C1_OneFetchPerWindow ==
    \A call \in CallsMade :
        /\ (call.src = "network" /\ call.prev.any)
              => call.at >= call.prev.issued + Window(call.key.op)
        /\ call.src = "cache"
              => /\ call.prev.any /\ call.prev.kind # "raised"
                 /\ call.at < call.prev.time + Window(call.key.op)

\* C2: a fetch operation returns the parsed payload on HTTP 200 (historical:
\* only with a 'daily' field) and None otherwise, a network failure like a
\* non-200 answer, and the run then shows the message of that section.
C2_FailureIsAbsent ==
    \A call \in CallsShown :
        call.src = "network" =>
            LET parsed == call.response \in {"200", "200_empty_daily"}
            IN  /\ call.val.kind # "raised"
                /\ parsed <=> call.val.kind # "None"
                /\ (~parsed /\ call.key.op # "get_historical_data")
                      => AbsentMessage(call.key.op) \in view.sections

\* C3: no error is fatal to a run, and a section whose data is there is
\* rendered whatever happened to the others: every run that ends completes,
\* and the rainfall chart is shown whenever the historical frame has rows.
C3_SectionsIndependent ==
    view.outcome # "none" =>
        /\ view.outcome = "completed"
        /\ \A call \in CallsShown :
              (/\ call.key.op = "get_historical_data"
               /\ call.val.kind = "frame"
               /\ call.val.body # <<>>) => "rain_chart" \in view.sections

\* C4: when the bulk fetch is answered with the payload, the overview has
\* exactly one row per city of the registry, in the registry's order, and
\* each row shows the conditions of its own city.
C4_OneRowPerCity ==
    \A call \in CallsShown :
        (call.key.op = "get_all_cities_data" /\ call.val.kind \in {"list", "object"}) =>
            /\ view.outcome = "completed"
            /\ Len(view.rows) = Len(CITIES.items)
            /\ \A i \in 1..Len(view.rows) :
                  LET city == CITIES.items[i]
                  IN  /\ view.rows[i].City = city.city
                      /\ view.rows[i].lat = city.lat
                      /\ view.rows[i].lon = city.lon
                      /\ view.rows[i].Temp = Conditions(city.lat, city.lon).current.temperature_2m

\* The pair the contract gives a weather code: its table entry, or the
\* fallback ("Unknown", "").
ContractPair(c) == IF c \in MappedCodes THEN WEATHER_CODES(c) ELSE <<"Unknown", "">>

\* C5: at both places a weather code is mapped, the condition metric and a
\* row of the 7-day table, the code maps to its table pair or, when
\* unmapped, to ("Unknown", "").
C5_MappingTotal ==
    /\ pc \in {"condition", "daily"} => shown.metric = ContractPair(code)
    /\ pc = "daily" => shown.weather = <<ContractPair(code)[2], " ", ContractPair(code)[1]>>

\* C6: the slice is the contiguous run of the series that starts at the
\* first stamp >= now and has min(24, number of stamps >= now) entries.
C6_HourlySlice ==
    pc = "sliced" =>
        LET ahead == {i \in 1..Len(hourly) : hourly[i] >= now}
            first == CHOOSE i \in ahead : \A j \in ahead : i <= j
        IN  /\ Len(chart_df) = Min(24, Cardinality(ahead))
            /\ \A j \in 1..Len(chart_df) : chart_df[j] = hourly[first + j - 1]

\* C6, its case: now falls between two stamps, stamps are skipped before the
\* slice and more than 24 stamps lie ahead, so the slice is cut at 24.
C6_Witness ==
    /\ pc = "sliced"
    /\ Len(chart_df) = 24
    /\ chart_df[1] > now /\ hourly[1] < now
    /\ hourly[Len(hourly)] > chart_df[24]

\* The YYYY-MM a date text starts with.
MonthOf(text) == SubSeq(text, 1, 7)

\* C7: the chart data has exactly one entry per calendar month of the
\* series, labelled YYYY-MM, whose value is the sum of precipitation_sum over
\* the days of that month; 2025-04-22..2025-04-30 gives the single entry
\* 2025-04 with the sum of its values.
C7_MonthlyTotals ==
    pc = "aggregated" =>
        LET months == {MonthOf(historical[i].time) : i \in 1..Len(historical)}
            total(mo) == SeqSum([i \in 1..Len(historical) |->
                                   IF MonthOf(historical[i].time) = mo
                                   THEN historical[i].precipitation_sum ELSE 0])
        IN  /\ Len(monthly_data) = Cardinality(months)
            /\ \A mo \in months :
                  \E k \in 1..Len(monthly_data) :
                      /\ monthly_data[k].time = mo
                      /\ monthly_data[k].precipitation_sum = total(mo)
            /\ historical = Fixture =>
                  monthly_data = <<[time |-> <<"2", "0", "2", "5", "-", "0", "4">>,
                                    precipitation_sum |-> 57]>>

\* C7, its case: a series over three months or more, one of them with two
\* rainy days whose rainfall adds up.
C7_Witness ==
    /\ pc = "aggregated"
    /\ Len(monthly_data) >= 3
    /\ \E k \in 1..Len(monthly_data) :
          /\ monthly_data[k].precipitation_sum = 17
          /\ Cardinality({i \in 1..Len(historical) :
                             /\ MonthOf(historical[i].time) = monthly_data[k].time
                             /\ historical[i].precipitation_sum > 0}) = 2

\* C8: when a detail view was rendered (both fetches returned) and the
\* historical series is None or empty, the rainfall section shows the
\* placeholder and no chart.
C8_PlaceholderAlways ==
    (view.outcome = "completed" /\ view.page \notin {"", HOME}) =>
        \A call \in CallsShown :
            (/\ call.key.op = "get_historical_data"
             /\ (call.val.kind = "None" \/ call.val.body = <<>>))
               => /\ "rain_placeholder" \in view.sections
                  /\ "rain_chart" \notin view.sections

\* The rows of the file that have a city and a POINT(a b) match, and the
\* first of them for each city.
Parsed(rows) ==
    {i \in 1..Len(rows) : rows[i].city # NaN /\ StrExtract(rows[i].point_coord) # NoMatch}
FirstOf(rows, name) ==
    CHOOSE i \in Parsed(rows) :
        /\ rows[i].city = name
        /\ \A j \in Parsed(rows) : rows[j].city = name => i <= j

\* The registry has one entry per city of the parsed rows, in the order the
\* cities first occur, each with the coordinates of its first parsed row;
\* first tells which coordinate the first number of POINT(...) is.
RegistryIs(rows, first) ==
    LET names == {rows[i].city : i \in Parsed(rows)}
    IN  /\ Len(CITIES.items) = Cardinality(names)
        /\ {CITIES.items[k].city : k \in 1..Len(CITIES.items)} = names
        /\ \A k \in 1..Len(CITIES.items) :
              LET item == CITIES.items[k]
                  g    == StrExtract(rows[FirstOf(rows, item.city)].point_coord)
              IN  /\ item[first] = ToNumeric(g[1])
                  /\ item[IF first = "lat" THEN "lon" ELSE "lat"] = ToNumeric(g[2])
                  /\ \A l \in 1..(k - 1) :
                        FirstOf(rows, CITIES.items[l].city) < FirstOf(rows, item.city)

\* C9: a registry that was built holds one entry per city of the
\* parsed rows, with the coordinates of the city's first such row, the
\* longitude being the first number inside POINT(...) and the latitude the
\* second.
C9_LongitudeFirst ==
    (pc = "registry" /\ CITIES.bound) => RegistryIs(csv.rows, "lon")

\* C10: once a GET was answered with a result of None, every later call for
\* the same operation and arguments inside the window is served that None
\* from the cache, and the page of the run shows the warning or error of
\* that section (overview warning, detail error, rainfall placeholder) and
\* none of its data; the first call at or after the end of the window
\* issues a new GET.
C10_NoneIsMemoized ==
    /\ \A call \in CallsMade :
          (call.prev.any /\ call.prev.kind = "None") =>
              IF call.at < call.prev.time + Window(call.key.op)
              THEN call.src = "cache" /\ call.val.kind = "None"
              ELSE call.src = "network"
    /\ \A call \in CallsShown :
          (/\ call.prev.any /\ call.prev.kind = "None"
           /\ call.at < call.prev.time + Window(call.key.op)) =>
              /\ view.sections \cap DataSections(call.key.op) = {}
              /\ AbsentMessage(call.key.op) \in view.sections

====
